---- MODULE Spec2Model ----
(***************************************************************************)
(* cp-font-gen: the encoding repair of the bitmap font document            *)
(* (converter.fix_bdf_encodings), the per-size conversion pipeline         *)
(* (generator.generate_font) with its logger and manifest, and the         *)
(* generate command around it (cli.generate).                              *)
(*                                                                         *)
(* Five specifications share the module:                                   *)
(*   SpecFix    fix_bdf_encodings applied (once, then again) to a bounded  *)
(*              document on disk;                                          *)
(*   Spec       generate_font driving subset / rasterize / repair / pack   *)
(*              for every configured size, called directly or by the       *)
(*              generate command;                                          *)
(*   SpecRange  utils.unicode_range_to_chars applied to one string;        *)
(*   SpecChars  config.collect_characters applied to one configuration;    *)
(*   SpecLogger the methods of one GenerationLogger called in any order.   *)
(***************************************************************************)
EXTENDS FiniteSets, Integers, Sequences, TLC

\* ------------------------------------------------------------------ bounds
\* Longest document (in lines) the repair is applied to.
MaxLines == 3
\* Longest list of config["sizes"].
MaxSizes == 2

\* ------------------------------------------------------- the document model
\* A character is its code point (ord(c)); sorted() on one-character strings
\* orders them by code point.
Chars == {65, 66, 67}

\* A whitespace-separated token after the ENCODING marker: int(tok) succeeds
\* (isInt) with value val, or raises ValueError.
IntTok(v) == [isInt |-> TRUE, val |-> v]
BadTok == [isInt |-> FALSE, val |-> 0]

\* A line of the file on disk.  marker: the line starts with "ENCODING ";
\* toks: its tokens after the marker; bytes: the bytes of any other line;
\* eol: the line terminator as stored.
EncLine(toks) == [marker |-> TRUE, toks |-> toks, bytes |-> <<>>, eol |-> "LF"]
OtherLine(bytes, eol) == [marker |-> FALSE, toks |-> <<>>, bytes |-> bytes, eol |-> eol]

\* The lines documents are built from: placeholder and already-correct
\* ENCODING records, an ENCODING line with no value, one whose value is not
\* an integer, an ASCII line ("F") ending LF or CR LF, a line holding the
\* Latin-1 byte 0xA9, and a line holding the UTF-8 sequence 0xC2 0xA9.
LineAlphabet ==
    { EncLine(<<IntTok(1)>>), EncLine(<<IntTok(65)>>), EncLine(<<IntTok(66)>>),
      EncLine(<<>>), EncLine(<<BadTok>>),
      OtherLine(<<70>>, "LF"), OtherLine(<<70>>, "CRLF"),
      OtherLine(<<169>>, "LF"), OtherLine(<<194, 169>>, "LF") }

SeqsUpTo(S, n) == UNION { [1..k -> S] : k \in 0..n }

Docs == SeqsUpTo(LineAlphabet, MaxLines)

\* What a path holds: no file, or a file with its lines.
NoFile == [exists |-> FALSE, lines |-> <<>>]
File(lines) == [exists |-> TRUE, lines |-> lines]

\* -------------------------------------------------------------- text codec
\* open(path, "r") / open(path, "w") without encoding= use the locale's
\* preferred encoding.
Encodings == {"utf-8", "latin-1"}

RECURSIVE DecodeUtf8(_)
DecodeUtf8(b) ==
    IF b = <<>> THEN [ok |-> TRUE, text |-> <<>>]
    ELSE IF b[1] < 128
    THEN LET r == DecodeUtf8(Tail(b))
         IN  [ok |-> r.ok, text |-> <<b[1]>> \o r.text]
    ELSE IF b[1] >= 194 /\ b[1] <= 223 /\ Len(b) >= 2 /\ b[2] >= 128 /\ b[2] <= 191
    THEN LET r == DecodeUtf8(Tail(Tail(b)))
         IN  [ok |-> r.ok, text |-> <<(b[1] - 192) * 64 + (b[2] - 128)>> \o r.text]
    ELSE [ok |-> FALSE, text |-> <<>>]

RECURSIVE EncodeUtf8(_)
EncodeUtf8(t) ==
    IF t = <<>> THEN <<>>
    ELSE IF t[1] < 128 THEN <<t[1]>> \o EncodeUtf8(Tail(t))
    ELSE <<192 + (t[1] \div 64), 128 + (t[1] % 64)>> \o EncodeUtf8(Tail(t))

\* Latin-1 maps every byte to the code point of the same value.
Decode(enc, b) ==
    IF enc = "utf-8" THEN DecodeUtf8(b) ELSE [ok |-> TRUE, text |-> b]

\* Writing UTF-8 whatever encoding decoded the file.
EncodeAsUtf8(enc, t) == EncodeUtf8(t)

Encode(enc, t) ==
    IF enc = "utf-8" THEN EncodeUtf8(t) ELSE t

\* f.readlines() in text mode: every line decoded, and (universal newlines)
\* its terminator translated to "\n".  ok = FALSE: UnicodeDecodeError.
ReadLine(enc, l) ==
    LET d == Decode(enc, l.bytes)
    IN  [ok |-> d.ok,
         line |-> [marker |-> l.marker, toks |-> l.toks, text |-> d.text]]

ReadLines(enc, lines) ==
    [ok |-> \A i \in 1..Len(lines) : ReadLine(enc, lines[i]).ok,
     lines |-> [i \in 1..Len(lines) |-> ReadLine(enc, lines[i]).line]]

\* f.writelines() in text mode on a POSIX system: "\n" is written as LF.
WriteLine(enc, t) ==
    [marker |-> t.marker, toks |-> t.toks, bytes |-> Encode(enc, t.text), eol |-> "LF"]

WriteLines(enc, tlines) ==
    [i \in 1..Len(tlines) |-> WriteLine(enc, tlines[i])]

\* ------------------------------------------------------- fix_bdf_encodings
\* sorted(list(chars)), then ord() of each.
RECURSIVE codepoints(_)
codepoints(S) ==
    IF S = {} THEN <<>>
    ELSE LET m == CHOOSE x \in S : \A y \in S : x <= y
         IN  <<m>> \o codepoints(S \ {m})

\* int(line.split()[1]): IndexError without a token, ValueError on a token
\* that is no integer.
ParseOk(t) == Len(t.toks) >= 1 /\ t.toks[1].isInt

\* The loop over lines, from line i with codepoint_idx = idx.
\* ok = FALSE: the int() of an ENCODING line raised.
RECURSIVE FixLoop(_, _, _, _)
FixLoop(tlines, cps, i, idx) ==
    IF i > Len(tlines) THEN [ok |-> TRUE, out |-> <<>>]
    ELSE LET t == tlines[i] IN
         IF t.marker /\ idx < Len(cps)
         THEN IF ~ParseOk(t) THEN [ok |-> FALSE, out |-> <<>>]
              ELSE LET r == FixLoop(tlines, cps, i + 1, idx + 1)
                   IN  [ok |-> r.ok,
                        out |-> <<[marker |-> TRUE,
                                   toks |-> <<IntTok(cps[idx + 1])>>,
                                   text |-> <<>>]>> \o r.out]
         ELSE LET r == FixLoop(tlines, cps, i + 1, idx)
              IN  [ok |-> r.ok, out |-> <<t>> \o r.out]

\* A repair that writes each line as soon as it is transformed: a failure
\* in the middle leaves the lines written so far.
fix_bdf_encodings_streamed(f, chars, mode, enc) ==
    IF ~f.exists \/ mode = "wo" THEN [ret |-> FALSE, file |-> f]
    ELSE LET rd == ReadLines(enc, f.lines) IN
         IF ~rd.ok \/ mode = "ro" THEN [ret |-> FALSE, file |-> f]
         ELSE LET fx == FixLoop(rd.lines, codepoints(chars), 1, 0) IN
              [ret |-> fx.ok, file |-> File(WriteLines(enc, fx.out))]

\* fix_bdf_encodings(bdf_path, chars): the value returned and the file left
\* at bdf_path.  f: what bdf_path holds; mode: the file's permissions
\* ("rw", "ro": open(.., "w") raises, "wo": open(.., "r") raises);
\* enc: the locale's preferred encoding.
fix_bdf_encodings(f, chars, mode, enc) ==
    IF ~f.exists \/ mode = "wo" THEN [ret |-> FALSE, file |-> f]
    ELSE LET rd == ReadLines(enc, f.lines) IN
         IF ~rd.ok THEN [ret |-> FALSE, file |-> f]
         ELSE LET fx == FixLoop(rd.lines, codepoints(chars), 1, 0) IN
              IF ~fx.ok \/ mode = "ro" THEN [ret |-> FALSE, file |-> f]
              ELSE [ret |-> TRUE, file |-> File(WriteLines(enc, fx.out))]

\* ------------------------------------------------- the output directory
\* config["sizes"] draws from these point sizes.
Sizes == {12, 16}

\* A file of the font-family output directory: f"{font_family}-{size}pt{kind}"
\* with kind one of "-subset.ttf", ".bdf", ".pcf"; the manifest has no size.
Name(size, kind) == [size |-> size, kind |-> kind]
subset_ttf(size) == Name(size, "-subset.ttf")
bdf_path(size) == Name(size, ".bdf")
pcf_path(size) == Name(size, ".pcf")
metadata_path == Name(0, "-manifest.json")

\* The directory maps the names of its files to their lines (<<>> for a file
\* whose content is not text this program reads).
EmptyDir == [n \in {} |-> <<>>]
Put(d, n, lines) == [x \in DOMAIN d \cup {n} |-> IF x = n THEN lines ELSE d[x]]
Remove(d, n) == [x \in DOMAIN d \ {n} |-> d[x]]
At(d, n) == IF n \in DOMAIN d THEN File(d[n]) ELSE NoFile

\* Deleting nothing.
unlink_nothing(d, names) == [raised |-> FALSE, disk |-> d]

\* Path.unlink() of each name in turn; missing_ok is False, so a missing file
\* raises FileNotFoundError and the later names are not reached.
RECURSIVE unlink(_, _)
unlink(d, names) ==
    IF names = <<>> THEN [raised |-> FALSE, disk |-> d]
    ELSE IF names[1] \notin DOMAIN d THEN [raised |-> TRUE, disk |-> d]
    ELSE unlink(Remove(d, names[1]), Tail(names))

\* ------------------------------------------------------- the three tools
\* What fontTools did: "ok", or an exception raised before the output was
\* opened ("raised"), or after it was created ("raised_after_save").
SubsetOutcomes == {"ok", "raised", "raised_after_save"}

\* Judging the subsetting by the presence of its output.
generate_subset_font_by_output(d, output_path, outcome) ==
    [success |-> outcome # "raised",
     disk |-> IF outcome = "raised" THEN d ELSE Put(d, output_path, <<>>)]

\* generate_subset_font(source_font, chars, output_path, logger)
generate_subset_font(d, output_path, outcome) ==
    [success |-> outcome = "ok",
     disk |-> IF outcome = "raised" THEN d ELSE Put(d, output_path, <<>>)]

\* What subprocess.run did: the tool exited 0, exited non-zero
\* (CalledProcessError), or was not found (FileNotFoundError).
ToolOutcomes == {"exit_zero", "exit_nonzero", "not_found"}

\* A bitmap document with n glyphs: a property line, then the placeholder
\* records ENCODING 1 .. ENCODING n.
Glyphs(n) == [k \in 1..n |-> EncLine(<<IntTok(k)>>)]

\* What otf2bdf may leave at the output path: nothing ("none"), the document
\* of the subset font, the same with a Latin-1 copyright line, or (when it
\* fails) a document cut off in the middle of an ENCODING line.
Written(outcome) ==
    IF outcome = "exit_zero" THEN {"none", "document", "latin1_document"}
    ELSE IF outcome = "exit_nonzero" THEN {"none", "truncated"}
    ELSE {"none"}

otf2bdf_output(what, n) ==
    IF what = "document" THEN <<OtherLine(<<70>>, "LF")>> \o Glyphs(n)
    ELSE IF what = "latin1_document" THEN <<OtherLine(<<169>>, "LF")>> \o Glyphs(n)
    ELSE <<OtherLine(<<70>>, "LF"), EncLine(<<>>)>>

\* convert_to_bdf(ttf_path, bdf_path, size, logger): success is the exit
\* status; with a logger os.path.getsize(bdf_path) runs inside the try, and
\* its FileNotFoundError is caught by the "command not found" handler.
convert_to_bdf(d, out_path, n, logger, outcome, what) ==
    LET d2 == IF what = "none" THEN d
              ELSE Put(d, out_path, otf2bdf_output(what, n))
    IN  [ret |-> outcome = "exit_zero" /\ (logger => out_path \in DOMAIN d2),
         disk |-> d2]

\* convert_to_pcf(bdf_path, pcf_path, logger): open(pcf_path, "w") creates
\* the output before the tool is looked up and run.
convert_to_pcf(d, out_path, outcome) ==
    [ret |-> outcome = "exit_zero", disk |-> Put(d, out_path, <<>>)]

\* ------------------------------------------------------- GenerationLogger
\* An execution-log entry: log_command(step, command, status, **kwargs),
\* with the error and exit_code keywords ("none" when not passed).
LogEntry(step, status, error, exit_code) ==
    [step |-> step, status |-> status, error |-> error, exit_code |-> exit_code]

\* What a call adds to the logger: entries to log_entries, messages to
\* warnings and to errors. Nothing is added when no logger is passed.
Logged(entries, ws, es) == [entries |-> entries, warnings |-> ws, errors |-> es]
NotLogged == Logged(<<>>, <<>>, <<>>)

\* str(e) of the exception that ended the subsetting.
exception_message(outcome) ==
    IF outcome = "raised" THEN "cannot open source font"
    ELSE "cannot read subset tables"

\* How many glyphs the subset of the source font may hold: the same font
\* and characters give the same subset for every size.
GlyphCounts == {0, 1}

\* The glyph count generate_subset_font returns beside its success flag.
num_glyphs(outcome, n) == IF outcome = "ok" THEN n ELSE 0

\* Warning also when the subset holds exactly half the requested count.
at_most_half_glyphs(n, nchars) == 2 * n <= nchars

\* num_glyphs < len(chars) * 0.5
few_glyphs(n, nchars) == 2 * n < nchars

few_glyphs_warning ==
    <<"Only num_glyphs glyphs in subset (expected ~len(chars)). ",
      "Source font may not contain requested characters.">>

\* Logging that leaves a failed subsetting to the error list alone.
generate_subset_font_logged_without_failed(log, nchars, outcome, n) ==
    IF ~log THEN NotLogged
    ELSE IF outcome = "ok"
    THEN Logged(<<LogEntry("subset_font", "started", "none", "none"),
                  LogEntry("subset_font", "success", "none", "none")>>,
                <<>>, <<>>)
    ELSE Logged(<<LogEntry("subset_font", "started", "none", "none")>>,
                <<>>,
                <<<<"Font subsetting failed: ", exception_message(outcome)>>>>)

\* What generate_subset_font logs: "started", the low-glyph-count warning,
\* then "success"; or "started", the error and "failed" with str(e).
generate_subset_font_logged(log, nchars, outcome, n) ==
    IF ~log THEN NotLogged
    ELSE IF outcome = "ok"
    THEN Logged(<<LogEntry("subset_font", "started", "none", "none"),
                  LogEntry("subset_font", "success", "none", "none")>>,
                IF few_glyphs(n, nchars) THEN <<few_glyphs_warning>> ELSE <<>>,
                <<>>)
    ELSE Logged(<<LogEntry("subset_font", "started", "none", "none"),
                  LogEntry("subset_font", "failed", exception_message(outcome), "none")>>,
                <<>>,
                <<<<"Font subsetting failed: ", exception_message(outcome)>>>>)

\* What convert_to_bdf logs: the handler that runs decides the entry.
convert_to_bdf_logged(log, d, out_path, outcome, what) ==
    IF ~log THEN NotLogged
    ELSE IF outcome = "exit_zero" /\ (what # "none" \/ out_path \in DOMAIN d)
    THEN Logged(<<LogEntry("convert_to_bdf", "success", "none", "none")>>, <<>>, <<>>)
    ELSE IF outcome = "exit_nonzero"
    THEN Logged(<<LogEntry("convert_to_bdf", "failed", "stderr", "returncode")>>,
                <<>>, <<<<"otf2bdf failed: ", "stderr">>>>)
    ELSE Logged(<<LogEntry("convert_to_bdf", "failed", "Command not found", "none")>>,
                <<>>, <<<<"otf2bdf command not found", "">>>>)

\* What fix_bdf_encodings logs: an error when it fails.
fix_bdf_encodings_logged(log, ret) ==
    IF log /\ ~ret
    THEN Logged(<<>>, <<>>, <<<<"Failed to fix BDF encodings: ", "str(e)">>>>)
    ELSE NotLogged

\* What convert_to_pcf logs.
convert_to_pcf_logged(log, outcome) ==
    IF ~log THEN NotLogged
    ELSE IF outcome = "exit_zero"
    THEN Logged(<<LogEntry("convert_to_pcf", "success", "none", "none")>>, <<>>, <<>>)
    ELSE IF outcome = "exit_nonzero"
    THEN Logged(<<LogEntry("convert_to_pcf", "failed", "stderr", "returncode")>>,
                <<>>, <<<<"bdftopcf failed: ", "stderr">>>>)
    ELSE Logged(<<LogEntry("convert_to_pcf", "failed", "Command not found", "none")>>,
                <<>>, <<<<"bdftopcf command not found", "">>>>)

\* generate_font's own warning when it skips a size.
skip_warning(log, stage) ==
    IF log THEN Logged(<<>>, <<<<"Skipping size due to failure of ", stage>>>>, <<>>)
    ELSE NotLogged

\* Two additions to the logger, one after the other.
Then(a, b) == Logged(a.entries \o b.entries, a.warnings \o b.warnings,
                     a.errors \o b.errors)

\* ------------------------------------------------------ coverage check
\* What check_character_coverage found: every requested character in the
\* font's cmap, some missing, or the font could not be read.
CoverageOutcomes == {"all_found", "some_missing", "failed"}

NoCoverage == [stats |-> "None", logged |-> NotLogged, raised |-> FALSE]

\* A coverage check whose failure is not caught.
check_character_coverage_unguarded(outcome) ==
    [stats |-> outcome, logged |-> NotLogged, raised |-> outcome = "failed"]

\* check_character_coverage(source_font, chars, logger): the statistics it
\* returns and what it logs; the exception of a failed check is caught
\* (except Exception), so nothing is raised to generate_font.
check_character_coverage(outcome) ==
    [raised |-> FALSE,
     stats |-> outcome,
     logged |-> IF outcome = "some_missing"
                THEN Logged(<<>>, <<<<"characters not found in source font", "">>>>, <<>>)
                ELSE IF outcome = "failed"
                THEN Logged(<<>>, <<>>, <<<<"Failed to check character coverage: ", "str(e)">>>>)
                ELSE NotLogged]

\* ------------------------------------------------------------ the manifest
\* The decimal digits of n, most significant first.
RECURSIVE DecimalDigits(_)
DecimalDigits(n) == IF n < 10 THEN <<n>> ELSE DecimalDigits(n \div 10) \o <<n % 10>>

\* The hexadecimal digits of n, most significant first.
RECURSIVE HexDigits(_)
HexDigits(n) == IF n < 16 THEN <<n>> ELSE HexDigits(n \div 16) \o <<n % 16>>

\* Zero-padding to at least four digits.
RECURSIVE Pad4(_)
Pad4(ds) == IF Len(ds) >= 4 THEN ds ELSE Pad4(<<0>> \o ds)

\* f"U+{ord(c):04X}"
unicode_range(c) == [prefix |-> "U+", digits |-> Pad4(HexDigits(c))]

\* ------------------------------------------------------ Unicode ranges
\* A string is the sequence of the code points of its characters, and a
\* character is its code point (chr and ord).
\* "0123456789ABCDEF"[d]
HexChar(d) == IF d < 10 THEN 48 + d ELSE 55 + d

\* f"{c:04X}"
Hex4(c) == [i \in 1..Len(Pad4(HexDigits(c))) |-> HexChar(Pad4(HexDigits(c))[i])]

\* The configuration strings "U+HHHH" and "U+HHHH-HHHH".
FormatPoint(c) == <<85, 43>> \o Hex4(c)
FormatRange(a, b) == <<85, 43>> \o Hex4(a) \o <<45>> \o Hex4(b)

\* unicode_range.replace("U+", "")
RECURSIVE replace_U_plus(_)
replace_U_plus(str) ==
    IF str = <<>> THEN <<>>
    ELSE IF Len(str) >= 2 /\ str[1] = 85 /\ str[2] = 43
    THEN replace_U_plus(SubSeq(str, 3, Len(str)))
    ELSE <<str[1]>> \o replace_U_plus(Tail(str))

\* str.split("-"): the parts between the hyphens.
RECURSIVE split(_)
split(str) ==
    IF \A i \in 1..Len(str) : str[i] # 45 THEN <<str>>
    ELSE LET i == CHOOSE k \in 1..Len(str) :
                      str[k] = 45 /\ \A j \in 1..(k - 1) : str[j] # 45
         IN  <<SubSeq(str, 1, i - 1)>> \o split(SubSeq(str, i + 1, Len(str)))

\* The value of one hexadecimal digit character, -1 for another character.
DigitValue(ch) ==
    IF ch \in 48..57 THEN ch - 48
    ELSE IF ch \in 65..70 THEN ch - 55
    ELSE IF ch \in 97..102 THEN ch - 87
    ELSE -1

\* int(str, 16) for a string of hexadecimal digits; ValueError for the empty
\* string and for a string with another character of the strings used here.
RECURSIVE int16(_)
int16(str) ==
    IF str = <<>> THEN [ok |-> FALSE, value |-> 0]
    ELSE LET d == DigitValue(str[Len(str)]) IN
         IF d < 0 THEN [ok |-> FALSE, value |-> 0]
         ELSE IF Len(str) = 1 THEN [ok |-> TRUE, value |-> d]
         ELSE LET r == int16(SubSeq(str, 1, Len(str) - 1)) IN
              [ok |-> r.ok, value |-> 16 * r.value + d]

\* range(a, b) with both ends included.
range_inclusive(a, b) == a..b

\* range(a, b)
range(a, b) == a..(b - 1)

\* unicode_range_to_chars(unicode_range) for the string str: the set of characters, or the
\* ValueError of int() or of unpacking the split.
unicode_range_to_chars(str) ==
    LET range_str == replace_U_plus(str) IN
    IF \E i \in 1..Len(range_str) : range_str[i] = 45
    THEN LET parts == split(range_str) IN
         IF Len(parts) # 2 THEN [raised |-> TRUE, chars |-> {}]
         ELSE LET start_code == int16(parts[1])
                  end_code == int16(parts[2])
              IN  IF ~start_code.ok \/ ~end_code.ok
                  THEN [raised |-> TRUE, chars |-> {}]
                  ELSE [raised |-> FALSE,
                        chars |-> range(start_code.value, end_code.value + 1)]
    ELSE LET code == int16(range_str) IN
         IF ~code.ok THEN [raised |-> TRUE, chars |-> {}]
         ELSE [raised |-> FALSE, chars |-> {code.value}]

\* -------------------------------------------------- collecting characters
\* set(str): the characters of a string.
SetOf(str) == { str[i] : i \in 1..Len(str) }

\* c.isspace(), for the characters below U+0100.
isspace(c) == c \in {9, 10, 11, 12, 13, 28, 29, 30, 31, 32, 133, 160}

\* f.read() of a file opened in text mode: "\r\n" and "\r" are read as "\n".
RECURSIVE read_text(_)
read_text(t) ==
    IF t = <<>> THEN <<>>
    ELSE IF t[1] = 13
    THEN <<10>> \o read_text(IF Len(t) >= 2 /\ t[2] = 10
                             THEN SubSeq(t, 3, Len(t)) ELSE Tail(t))
    ELSE <<t[1]>> \o read_text(Tail(t))

\* config["characters"]["file"]: no such key, a path with no file, a file
\* that is not UTF-8, or a UTF-8 file with its decoded content.
NoFileKey == [key |-> FALSE, exists |-> FALSE, decodable |-> FALSE, text |-> <<>>]
MissingFile == [key |-> TRUE, exists |-> FALSE, decodable |-> FALSE, text |-> <<>>]
UndecodableFile == [key |-> TRUE, exists |-> TRUE, decodable |-> FALSE, text |-> <<>>]
TextFile(t) == [key |-> TRUE, exists |-> TRUE, decodable |-> TRUE, text |-> t]

\* The characters of all ranges of a list, or the first ValueError.
RECURSIVE ranges_to_chars(_)
ranges_to_chars(ranges) ==
    IF ranges = <<>> THEN [raised |-> FALSE, chars |-> {}]
    ELSE LET r == unicode_range_to_chars(ranges[1]) IN
         IF r.raised THEN r
         ELSE LET rest == ranges_to_chars(Tail(ranges)) IN
              [raised |-> rest.raised,
               chars |-> IF rest.raised THEN {} ELSE r.chars \cup rest.chars]

\* Collecting from the first source present only.
collect_characters_first_source(inl, f, ranges, dedup, strip) ==
    LET rs == ranges_to_chars(ranges)
        got == IF inl # <<>> THEN SetOf(inl)
               ELSE IF f.key /\ f.exists THEN SetOf(read_text(f.text))
               ELSE rs.chars
    IN  IF (f.key /\ f.exists /\ ~f.decodable) \/ rs.raised
        THEN [raised |-> TRUE, chars |-> {}]
        ELSE [raised |-> FALSE,
              chars |-> IF strip THEN { c \in got : ~isspace(c) } ELSE got]

\* collect_characters(config, config_dir): inl is characters.inline (empty
\* when the key is absent), f characters.file, ranges
\* characters.unicode_ranges (empty when absent), dedup and strip the two
\* options. The set returned, or the exception raised by the file's decoding
\* or by a range.
collect_characters(inl, f, ranges, dedup, strip) ==
    LET from_inline == SetOf(inl)
        from_file == IF f.key /\ f.exists THEN SetOf(read_text(f.text)) ELSE {}
        rs == ranges_to_chars(ranges)
        all == from_inline \cup from_file \cup rs.chars
        deduplicated == IF dedup THEN all ELSE all
    IN  IF (f.key /\ f.exists /\ ~f.decodable) \/ rs.raised
        THEN [raised |-> TRUE, chars |-> {}]
        ELSE [raised |-> FALSE,
              chars |-> IF strip THEN { c \in deduplicated : ~isspace(c) }
                        ELSE deduplicated]

\* ------------------------------------------------- GenerationLogger calls
\* A GenerationLogger: its three lists, its verbose flag, and how many lines
\* it has echoed.
\* log_command that records only what it echoes.
log_command_if_verbose(lg, entry) ==
    IF lg.verbose
    THEN [lg EXCEPT !.log_entries = Append(@, entry), !.echoed = @ + 1]
    ELSE lg

\* log_command(step, command, status, **kwargs)
log_command(lg, entry) ==
    [lg EXCEPT !.log_entries = Append(@, entry),
               !.echoed = IF lg.verbose
                          THEN @ + (IF entry.status = "failed" /\ entry.error # "none"
                                    THEN 2
                                    ELSE IF entry.status \in {"started", "success", "failed"}
                                    THEN 1 ELSE 0)
                          ELSE @]

\* warn(message)
warn(lg, message) ==
    [lg EXCEPT !.warnings = Append(@, message),
               !.echoed = IF lg.verbose THEN @ + 1 ELSE @]

\* error(message): always shown.
error(lg, message) == [lg EXCEPT !.errors = Append(@, message), !.echoed = @ + 1]

\* info(message), success(message) and section(title) only echo.
info(lg, message) == [lg EXCEPT !.echoed = IF lg.verbose THEN @ + 1 ELSE @]
success(lg, message) == [lg EXCEPT !.echoed = IF lg.verbose THEN @ + 1 ELSE @]
section(lg, title) == [lg EXCEPT !.echoed = IF lg.verbose THEN @ + 1 ELSE @]

\* ------------------------------------------------------------ the state
VARIABLES
    chars,        \* the requested character set
    encoding,     \* the locale's preferred encoding
    bdf_file,     \* SpecFix: what bdf_path holds
    file_mode,    \* SpecFix: the permissions of the file at bdf_path
    fix_ret,      \* SpecFix: what the last fix_bdf_encodings call returned
    fix_calls,    \* SpecFix: how many times fix_bdf_encodings was called
    fix_orig,     \* SpecFix: what bdf_path held before the first call
    fix_prev,     \* SpecFix: what bdf_path held before the last call
    sizes,        \* config["sizes"]
    formats,      \* config["output"]["formats"]
    metadata,     \* config["output"].get("metadata", True)
    logger,       \* whether a GenerationLogger is passed
    debug,        \* logger.debug
    cli,          \* whether generate_font is run by the generate command
    dry_run,      \* the generate command's --dry-run flag
    config_loads, \* whether load_config returns the configuration
    font_glyphs,  \* how many glyphs the source font has for chars
    disk,         \* the font-family output directory
    pc,           \* where generate_font is
    idx,          \* the position in sizes of the size being processed
    generated_files,  \* the list generate_font builds and returns
    manifest,     \* the metadata last written to the manifest
    trail,        \* per size started: what each stage returned
    history,      \* per size started: what the tools did
    subset_result, \* the last generate_subset_font call and what it returned
    log_entries,  \* logger.log_entries
    warnings,     \* logger.warnings
    errors,       \* logger.errors
    coverage_stats, \* what the coverage check returned, "None" if not run
    manifest_writes, \* how many times the manifest file was written
    exit_code,    \* the exit status of the generate command, -1 while it runs
    made_dirs,    \* the directories created by mkdir so far
    dry_run_echo, \* what the generate command printed for a dry run
    inline,       \* SpecChars: config["characters"]["inline"]
    char_file,    \* SpecChars: the file config["characters"]["file"] names
    unicode_ranges, \* SpecChars: config["characters"]["unicode_ranges"]
    strip_whitespace, \* SpecChars: config.get("strip_whitespace", False)
    deduplicate_chars, \* SpecChars: config.get("deduplicate_chars", True)
    collected,    \* SpecChars: what collect_characters returned
    range_input,  \* SpecRange: the string given to unicode_range_to_chars
    range_result, \* SpecRange: what unicode_range_to_chars returned
    verbose,      \* SpecLogger: logger.verbose
    echoed,       \* SpecLogger: how many lines the logger echoed
    last_call     \* SpecLogger: the last method called, and how many calls so far

fixvars == <<bdf_file, file_mode, fix_ret, fix_calls, fix_orig, fix_prev>>
config == <<chars, encoding, sizes, formats, metadata, logger, debug, cli,
            dry_run, config_loads, font_glyphs>>
logvars == <<log_entries, warnings, errors>>
clivars == <<made_dirs, dry_run_echo>>
runvars == <<disk, pc, idx, generated_files, manifest, trail, history,
             subset_result, logvars, coverage_stats, manifest_writes, exit_code,
             clivars>>
charvars == <<inline, char_file, unicode_ranges, strip_whitespace,
              deduplicate_chars, collected>>
rangevars == <<range_input, range_result>>
loggervars == <<verbose, echoed, last_call>>
purevars == <<charvars, rangevars, loggervars>>
vars == <<fixvars, config, runvars, purevars>>

\* How many times in a row the repair is applied to the same path.
MaxCalls == 2

NoManifest == [written |-> FALSE, generated_files |-> <<>>,
               character_count |-> 0, characters |-> <<>>,
               unicode_ranges |-> <<>>, debug_info |-> "None"]

NoEcho == [printed |-> FALSE, characters |-> 0, sizes |-> <<>>, formats |-> {}]

NoCall == [outcome |-> "none", saved |-> 0, success |-> FALSE, num_glyphs |-> 0]

\* The run variables before generate_font (or the generate command) starts.
Fresh ==
    /\ disk = EmptyDir /\ idx = 0
    /\ generated_files = <<>> /\ manifest = NoManifest /\ trail = <<>>
    /\ history = <<>> /\ subset_result = NoCall
    /\ log_entries = <<>> /\ warnings = <<>> /\ errors = <<>>
    /\ coverage_stats = "None" /\ manifest_writes = 0 /\ exit_code = -1
    /\ made_dirs = {} /\ dry_run_echo = NoEcho

\* generate_font not running.
PipelineIdle ==
    /\ sizes = <<>> /\ formats = {} /\ metadata = FALSE /\ logger = FALSE
    /\ debug = FALSE /\ cli = FALSE /\ dry_run = FALSE /\ config_loads = TRUE
    /\ font_glyphs = 0
    /\ pc = "idle"
    /\ Fresh

\* fix_bdf_encodings not under test on its own.
FixIdle ==
    /\ bdf_file = NoFile /\ file_mode = "rw" /\ fix_ret = "none"
    /\ fix_calls = 0 /\ fix_orig = NoFile /\ fix_prev = NoFile

NotCalled == [done |-> FALSE, raised |-> FALSE, chars |-> {}]

NoLoggerCall == [method |-> "none", n |-> 0]

\* collect_characters not under test.
CharsIdle ==
    /\ inline = <<>> /\ char_file = NoFileKey /\ unicode_ranges = <<>>
    /\ strip_whitespace = FALSE /\ deduplicate_chars = TRUE
    /\ collected = NotCalled

\* unicode_range_to_chars not under test.
RangeIdle == range_input = <<>> /\ range_result = NotCalled

\* The logger's methods not under test on their own.
LoggerIdle == verbose = FALSE /\ echoed = 0 /\ last_call = NoLoggerCall

\* ------------------------------------------------------------- SpecFix
InitFix ==
    /\ chars \in SUBSET Chars
    /\ encoding \in Encodings
    /\ bdf_file \in {NoFile} \cup { File(d) : d \in Docs }
    /\ file_mode \in {"rw", "ro", "wo"}
    /\ fix_ret = "none"
    /\ fix_calls = 0
    /\ fix_orig = bdf_file
    /\ fix_prev = bdf_file
    /\ PipelineIdle
    /\ CharsIdle /\ RangeIdle /\ LoggerIdle

\* success = fix_bdf_encodings(bdf_path, chars)
FixCall ==
    /\ fix_calls < MaxCalls
    /\ LET r == fix_bdf_encodings(bdf_file, chars, file_mode, encoding) IN
        /\ bdf_file' = r.file
        /\ fix_ret' = IF r.ret THEN "True" ELSE "False"
    /\ fix_prev' = bdf_file
    /\ fix_calls' = fix_calls + 1
    /\ UNCHANGED <<file_mode, fix_orig, config, runvars, purevars>>

NextFix == FixCall

SpecFix == InitFix /\ [][NextFix]_vars

\* ---------------------------------------------------------- generate_font
\* Keeping the bitmap document whenever any format is requested.
keep_bdf_for_any_format == formats # {}

\* Keeping the bitmap document only when it is the sole format requested.
keep_bdf_unless_pcf == "bdf" \in formats /\ "pcf" \notin formats

\* Packing whatever the formats are.
need_pcf_always == TRUE

keep_bdf == "bdf" \in formats
need_pcf == "pcf" \in formats

size == sizes[idx]

\* What the stages of one size returned, "skipped" for a stage not run.
Started(s, ok) ==
    [size |-> s, subset |-> IF ok THEN "True" ELSE "False",
     bdf |-> "skipped", fix |-> "skipped", pcf |-> "skipped"]

Ret(b) == IF b THEN "True" ELSE "False"

SetLast(t, field, b) == [t EXCEPT ![Len(t)] = [@ EXCEPT ![field] = Ret(b)]]

\* Leaving the for loop after the first size.
AfterFirstSize(i) == "manifest"

\* The for loop moves to the next size, or ends.
AfterSize(i) == IF i < Len(sizes) THEN "subset" ELSE "manifest"

\* generate_font is called directly without a logger, or by the generate
\* command, which always passes one (cli.py:112). The characters are A and
\* B and the locale is UTF-8, under which a Latin-1 document fails to decode.
\* The two sizes are interchangeable (a size only names the files), so the
\* lists are taken with 12 first: a size alone, repeated, or followed by
\* the other.
Init ==
    /\ chars \in {{65, 66}}
    /\ encoding = "utf-8"
    /\ sizes \in { s \in SeqsUpTo(Sizes, MaxSizes) : s # <<>> => s[1] = 12 }
    /\ formats \in SUBSET {"bdf", "pcf"}
    /\ metadata \in BOOLEAN
    /\ logger \in BOOLEAN
    /\ debug \in BOOLEAN
    /\ cli \in BOOLEAN
    /\ dry_run \in BOOLEAN
    /\ config_loads \in BOOLEAN
    /\ font_glyphs \in GlyphCounts
    /\ logger = cli
    /\ debug => logger
    /\ ~cli => (~dry_run /\ config_loads)
    /\ pc = IF cli THEN "generate" ELSE "start"
    /\ Fresh
    /\ FixIdle
    /\ CharsIdle /\ RangeIdle /\ LoggerIdle

\* logger.log_command, logger.warn and logger.error append to the three
\* lists of the logger.
Record(l) ==
    /\ log_entries' = log_entries \o l.entries
    /\ warnings' = warnings \o l.warnings
    /\ errors' = errors \o l.errors

\* What the tools did for one size, "none" for a tool not run.
Tools(outcome) == [subset |-> outcome, bdf |-> "none", what |-> "none", pcf |-> "none"]

\* Exiting 0 whatever was generated.
exit_status_zero(files) == 0

\* The generate command's exit status after generate_font returned files.
exit_status(files) == IF files # <<>> THEN 0 ELSE 1

\* Going on to generate whatever --dry-run says.
after_collecting_generate(dry) == "generate"

\* if dry_run: ... return
after_collecting(dry) == IF dry THEN "return" ELSE "generate"

\* The generate command up to its call of generate_font: a configuration
\* that cannot be loaded exits 1, a dry run prints its summary and returns,
\* otherwise the output directory is created.
Generate ==
    /\ pc = "generate"
    /\ IF ~config_loads
       THEN pc' = "exited" /\ exit_code' = 1 /\ UNCHANGED clivars
       ELSE IF after_collecting(dry_run) = "return"
       THEN /\ pc' = "exited" /\ exit_code' = 0
            /\ dry_run_echo' = [printed |-> TRUE,
                                characters |-> Cardinality(chars),
                                sizes |-> sizes, formats |-> formats]
            /\ made_dirs' = made_dirs
       ELSE /\ pc' = "start" /\ exit_code' = exit_code
            /\ made_dirs' = made_dirs \cup {"output_dir"}
            /\ dry_run_echo' = dry_run_echo
    /\ UNCHANGED <<disk, idx, generated_files, manifest, trail, history,
                   subset_result, logvars, coverage_stats, manifest_writes,
                   config, fixvars, purevars>>

\* generated_files = []; font_output_dir.mkdir(parents=True, exist_ok=True);
\* the coverage check, in debug mode only.
Start ==
    /\ pc = "start"
    /\ \E outcome \in CoverageOutcomes :
         LET c == IF logger /\ debug THEN check_character_coverage(outcome)
                  ELSE NoCoverage
         IN  /\ coverage_stats' = c.stats
             /\ Record(c.logged)
             /\ made_dirs' = made_dirs \cup {"output_dir", "font_output_dir"}
             /\ dry_run_echo' = dry_run_echo
             /\ IF c.raised
                THEN pc' = "raised" /\ idx' = idx
                ELSE /\ pc' = AfterSize(0)
                     /\ idx' = IF sizes = <<>> THEN 0 ELSE 1
    /\ UNCHANGED <<disk, generated_files, manifest, trail, history,
                   subset_result, manifest_writes, exit_code, config, fixvars, purevars>>

\* Step 1: generate_subset_font; on failure the size is skipped.
Subset ==
    /\ pc = "subset"
    /\ \E outcome \in SubsetOutcomes :
         LET r == generate_subset_font(disk, subset_ttf(size), outcome)
             n == IF outcome = "raised" THEN 0 ELSE font_glyphs
             l == generate_subset_font_logged(logger, Cardinality(chars), outcome, n)
         IN
         /\ disk' = r.disk
         /\ trail' = Append(trail, Started(size, r.success))
         /\ history' = Append(history, Tools(outcome))
         /\ subset_result' = [outcome |-> outcome, saved |-> n,
                              success |-> r.success,
                              num_glyphs |-> num_glyphs(outcome, n)]
         /\ IF r.success
            THEN /\ pc' = "rasterize" /\ idx' = idx
                 /\ Record(l)
            ELSE /\ pc' = AfterSize(idx) /\ idx' = idx + 1
                 /\ Record(Then(l, skip_warning(logger, "subsetting")))
    /\ UNCHANGED <<generated_files, manifest, coverage_stats, manifest_writes,
                   exit_code, config, fixvars,
                   clivars, purevars>>

\* Step 2: convert_to_bdf; on failure the subset font is unlinked and the
\* size is skipped.
Rasterize ==
    /\ pc = "rasterize"
    /\ \E outcome \in ToolOutcomes : \E what \in Written(outcome) :
         LET r == convert_to_bdf(disk, bdf_path(size), Cardinality(chars),
                                 logger, outcome, what)
             l == convert_to_bdf_logged(logger, disk, bdf_path(size), outcome, what)
             u == unlink(r.disk, <<subset_ttf(size)>>)
         IN
         /\ trail' = SetLast(trail, "bdf", r.ret)
         /\ history' = [history EXCEPT ![Len(history)] =
                           [@ EXCEPT !.bdf = outcome, !.what = what]]
         /\ IF r.ret
            THEN disk' = r.disk /\ pc' = "repair" /\ idx' = idx /\ Record(l)
            ELSE /\ disk' = u.disk
                 /\ IF u.raised
                    THEN pc' = "raised" /\ idx' = idx /\ Record(l)
                    ELSE /\ pc' = AfterSize(idx) /\ idx' = idx + 1
                         /\ Record(Then(l, skip_warning(logger, "BDF conversion")))
    /\ UNCHANGED <<generated_files, manifest, subset_result, coverage_stats,
                   manifest_writes, exit_code, config, fixvars,
                   clivars, purevars>>

\* fix_bdf_encodings; on failure both intermediates are unlinked and the size
\* is skipped; on success the bitmap document is listed if it is kept.
Repair ==
    /\ pc = "repair"
    /\ LET r == fix_bdf_encodings(At(disk, bdf_path(size)), chars, "rw", encoding)
           l == fix_bdf_encodings_logged(logger, r.ret)
           u == unlink(disk, <<subset_ttf(size), bdf_path(size)>>)
       IN
       /\ trail' = SetLast(trail, "fix", r.ret)
       /\ IF r.ret
          THEN /\ disk' = Put(disk, bdf_path(size), r.file.lines)
               /\ generated_files' = IF keep_bdf
                                     THEN Append(generated_files, bdf_path(size))
                                     ELSE generated_files
               /\ pc' = IF need_pcf THEN "pack" ELSE "cleanup"
               /\ idx' = idx
               /\ Record(l)
          ELSE /\ disk' = u.disk
               /\ generated_files' = generated_files
               /\ IF u.raised
                  THEN pc' = "raised" /\ idx' = idx /\ Record(l)
                  ELSE /\ pc' = AfterSize(idx) /\ idx' = idx + 1
                       /\ Record(Then(l, skip_warning(logger, "BDF encoding fix")))
    /\ UNCHANGED <<manifest, history, subset_result, coverage_stats,
                   manifest_writes, exit_code, config, fixvars,
                   clivars, purevars>>

\* Step 3: convert_to_pcf, run only if "pcf" is requested.
Pack ==
    /\ pc = "pack"
    /\ \E outcome \in ToolOutcomes :
         LET r == convert_to_pcf(disk, pcf_path(size), outcome) IN
         /\ disk' = r.disk
         /\ trail' = SetLast(trail, "pcf", r.ret)
         /\ history' = [history EXCEPT ![Len(history)] = [@ EXCEPT !.pcf = outcome]]
         /\ Record(convert_to_pcf_logged(logger, outcome))
         /\ generated_files' = IF r.ret
                               THEN Append(generated_files, pcf_path(size))
                               ELSE generated_files
    /\ pc' = "cleanup"
    /\ UNCHANGED <<idx, manifest, subset_result, coverage_stats,
                   manifest_writes, exit_code, config, fixvars,
                   clivars, purevars>>

\* Clean up intermediate files.
Cleanup ==
    /\ pc = "cleanup"
    /\ LET u == unlink(disk, IF keep_bdf THEN <<subset_ttf(size)>>
                             ELSE <<subset_ttf(size), bdf_path(size)>>)
       IN
       /\ disk' = u.disk
       /\ IF u.raised
          THEN pc' = "raised" /\ idx' = idx
          ELSE pc' = AfterSize(idx) /\ idx' = idx + 1
    /\ UNCHANGED <<generated_files, manifest, trail, history, subset_result,
                   logvars, coverage_stats, manifest_writes, exit_code,
                   config, fixvars,
                   clivars, purevars>>

\* logger.get_debug_info(__version__, coverage_stats)
get_debug_info ==
    [execution_log |-> log_entries, warnings |-> warnings, errors |-> errors,
     character_coverage |-> coverage_stats]

\* generate_metadata(config, chars, generated_files, ..., debug_info)
generate_metadata ==
    [written |-> TRUE,
     generated_files |-> generated_files,
     character_count |-> Cardinality(chars),
     characters |-> codepoints(chars),
     unicode_ranges |-> [k \in 1..Cardinality(chars) |->
                            unicode_range(codepoints(chars)[k])],
     debug_info |-> IF logger /\ debug THEN get_debug_info ELSE "None"]

\* The manifest is written if config["output"]["metadata"]; then
\* generate_font returns generated_files.
WriteManifest ==
    /\ pc = "manifest"
    /\ IF metadata
       THEN /\ manifest' = generate_metadata
            /\ disk' = Put(disk, metadata_path, <<>>)
            /\ manifest_writes' = manifest_writes + 1
       ELSE UNCHANGED <<manifest, disk, manifest_writes>>
    /\ pc' = "done"
    /\ UNCHANGED <<idx, generated_files, trail, history, subset_result,
                   logvars, coverage_stats, exit_code, config, fixvars,
                   clivars, purevars>>

\* The generate command after generate_font: the summary and the exit
\* status; an exception that escaped generate_font ends the process with 1.
Exit ==
    /\ cli
    /\ pc \in {"done", "raised"}
    /\ exit_code = -1
    /\ exit_code' = IF pc = "done" THEN exit_status(generated_files) ELSE 1
    /\ UNCHANGED <<disk, pc, idx, generated_files, manifest, trail, history,
                   subset_result, logvars, coverage_stats, manifest_writes,
                   config, fixvars,
                   clivars, purevars>>

Next ==
    \/ Generate
    \/ Start
    \/ Subset
    \/ Rasterize
    \/ Repair
    \/ Pack
    \/ Cleanup
    \/ WriteManifest
    \/ Exit

Spec == Init /\ [][Next]_vars

\* =====================================================================
\* Properties of generate_font (checked under Spec)
\* =====================================================================
\* The artifacts of the sizes of a trail: for each size whose subsetting,
\* rasterizing and repair returned True, the bitmap document if "bdf" is
\* requested, then the packed font if "pcf" is requested and packing
\* returned True.
RECURSIVE Produced(_)
Produced(t) ==
    IF t = <<>> THEN <<>>
    ELSE LET e == t[Len(t)]
             ok == e.subset = "True" /\ e.bdf = "True" /\ e.fix = "True"
         IN  Produced(SubSeq(t, 1, Len(t) - 1))
             \o (IF ok /\ "bdf" \in formats THEN <<Name(e.size, ".bdf")>> ELSE <<>>)
             \o (IF ok /\ "pcf" \in formats /\ e.pcf = "True"
                 THEN <<Name(e.size, ".pcf")>> ELSE <<>>)

AllStagesSucceeded(e) ==
    e.subset = "True" /\ e.bdf = "True" /\ e.fix = "True" /\ e.pcf = "True"

\* C2: whatever the stages return and leave on disk, no exception escapes
\* generate_font, and when it returns every size of the list was attempted
\* (stated for the runs that request a format).
C2_EverySizeAttempted ==
    formats # {}
    => /\ pc # "raised"
       /\ pc = "done" => Len(trail) = Len(sizes)

\* C8: when generate_font returns, no subset outline font is left in the
\* output directory, whichever way each size ended (stated for the runs that
\* request a format).
C8_NoSubsetFontLeft ==
    (pc = "done" /\ formats # {})
    => \A s \in Sizes : subset_ttf(s) \notin DOMAIN disk

\* C9: when "bdf" is not requested and generate_font returns, no bitmap
\* document is left in the output directory, whichever way each size ended
\* (stated for the runs that request "pcf").
C9_NoBitmapLeftUnlessKept ==
    (pc = "done" /\ "bdf" \notin formats /\ "pcf" \in formats)
    => \A s \in Sizes : bdf_path(s) \notin DOMAIN disk

\* C10: generate_font returns, in the order of the configured sizes, the
\* artifacts of the sizes whose subsetting, rasterizing and repair succeeded:
\* the bitmap document if requested, then the packed font if requested and
\* packed; one size with both formats and every stage succeeding gives
\* exactly the two names.
C10_ReturnsProducedArtifacts ==
    pc = "done"
    => /\ [k \in 1..Len(trail) |-> trail[k].size] = sizes
       /\ generated_files = Produced(trail)
       /\ (/\ Len(sizes) = 1
           /\ formats = {"bdf", "pcf"}
           /\ AllStagesSucceeded(trail[1]))
          => generated_files = <<Name(sizes[1], ".bdf"), Name(sizes[1], ".pcf")>>

\* A run of two sizes returned: the repair of the first failed, every stage
\* of the second succeeded, and only "pcf" was requested.
C10_Witness ==
    /\ pc = "done"
    /\ Len(sizes) = 2
    /\ formats = {"pcf"}
    /\ trail[1].fix = "False"
    /\ AllStagesSucceeded(trail[2])
    /\ Len(generated_files) = 1

\* =====================================================================
\* Properties of the repair (checked under SpecFix)
\* =====================================================================
\* The ENCODING lines of a document, as positions.
MarkerPositions(lines) == { i \in 1..Len(lines) : lines[i].marker }

NumEncodings(lines) == Cardinality(MarkerPositions(lines))

\* Every ENCODING line is a record: the marker followed by a decimal integer.
WellFormed(lines) ==
    \A i \in MarkerPositions(lines) : Len(lines[i].toks) >= 1 /\ lines[i].toks[1].isInt

\* The position of the k-th ENCODING line.
KthMarker(lines, k) ==
    CHOOSE i \in MarkerPositions(lines) :
        Cardinality({ j \in MarkerPositions(lines) : j <= i }) = k

\* The ENCODING values in document order (of a well-formed document).
EncodingValues(lines) ==
    [k \in 1..NumEncodings(lines) |-> lines[KthMarker(lines, k)].toks[1].val]

IsAscending(s) == \A i, j \in 1..Len(s) : i < j => s[i] < s[j]

Range(s) == { s[i] : i \in 1..Len(s) }

\* s lists exactly the code points of C, ascending.
IsSortedCodepointsOf(s, C) == IsAscending(s) /\ Range(s) = C

\* s lists the n smallest code points of C, ascending.
IsSmallestOf(s, C, n) ==
    /\ Len(s) = n
    /\ IsAscending(s)
    /\ Range(s) \subseteq C
    /\ \A c \in C \ Range(s) : \A x \in Range(s) : x < c

Min(a, b) == IF a <= b THEN a ELSE b

\* The first call was made on a file that exists and can be read and written,
\* with at least one character requested.
CalledOnceOnFile ==
    fix_calls = 1 /\ fix_orig.exists /\ file_mode = "rw" /\ chars # {}

\* Some line of the document is not valid UTF-8 (every line decodes as Latin-1).
NotUtf8(lines) == \E i \in 1..Len(lines) : ~DecodeUtf8(lines[i].bytes).ok

\* What the repair does hold on: a file that decodes in the locale's encoding
\* and whose ENCODING lines all carry an integer.  The call returns True, the
\* first min(n, |C|) records get the smallest code points ascending, the
\* records beyond keep their line, and the bytes of the other lines (not
\* their terminators) are kept.
RepairOfDecodableRecords ==
    (/\ CalledOnceOnFile
     /\ WellFormed(fix_orig.lines)
     /\ ReadLines(encoding, fix_orig.lines).ok)
    => LET n == NumEncodings(fix_orig.lines)
           m == Min(n, Cardinality(chars))
       IN  /\ fix_ret = "True"
           /\ Len(bdf_file.lines) = Len(fix_orig.lines)
           /\ IsSmallestOf(SubSeq(EncodingValues(bdf_file.lines), 1, m), chars, m)
           /\ \A k \in (Cardinality(chars) + 1)..n :
                 bdf_file.lines[KthMarker(fix_orig.lines, k)]
                     = fix_orig.lines[KthMarker(fix_orig.lines, k)]
           /\ \A i \in 1..Len(fix_orig.lines) :
                 ~fix_orig.lines[i].marker
                     => bdf_file.lines[i].bytes = fix_orig.lines[i].bytes

\* C1: for every document with as many ENCODING records as characters, the
\* repair returns True and leaves the ENCODING values equal to the code
\* points of the character set, ascending, in document order.
C1_RepairYieldsSortedCodepoints ==
    (/\ CalledOnceOnFile
     /\ WellFormed(fix_orig.lines)
     /\ NumEncodings(fix_orig.lines) = Cardinality(chars))
    => (/\ fix_ret = "True"
        /\ IsSortedCodepointsOf(EncodingValues(bdf_file.lines), chars))

\* C3: the repair returns False only on an I/O failure: on every file that
\* can be read (and written) it returns True, however malformed its
\* ENCODING lines are.
C3_ReadableDocumentReturnsTrue ==
    (CalledOnceOnFile /\ ReadLines(encoding, fix_orig.lines).ok)
    => fix_ret = "True"

\* C4: a successful repair keeps the number of lines and leaves every line
\* that is not an ENCODING line identical, byte for byte, at its position.
C4_OtherLinesUntouched ==
    (fix_calls = 1 /\ fix_ret = "True")
    => (/\ Len(bdf_file.lines) = Len(fix_orig.lines)
        /\ \A i \in 1..Len(fix_orig.lines) :
              ~fix_orig.lines[i].marker => bdf_file.lines[i] = fix_orig.lines[i])

\* C5: a second repair with the same character set leaves the document the
\* first one left, and a document whose ENCODING values already are the
\* ascending code points of the character set keeps these values.
C5_RepairIdempotent ==
    /\ fix_calls >= 2 => bdf_file = fix_prev
    /\ (/\ fix_calls >= 1
        /\ fix_orig.exists
        /\ WellFormed(fix_orig.lines)
        /\ IsSortedCodepointsOf(EncodingValues(fix_orig.lines), chars))
       => EncodingValues(bdf_file.lines) = EncodingValues(fix_orig.lines)

\* The second call followed a first call that succeeded and rewrote values.
C5_Witness ==
    /\ fix_calls = 2
    /\ fix_ret = "True"
    /\ WellFormed(fix_orig.lines)
    /\ NumEncodings(fix_orig.lines) >= 2
    /\ EncodingValues(fix_orig.lines) # EncodingValues(fix_prev.lines)
    /\ NotUtf8(fix_orig.lines)

\* C6: when the number n of ENCODING records differs from |C| the repair
\* still returns True, the first min(n, |C|) records get the min(n, |C|)
\* smallest code points ascending, and every record beyond the |C|-th keeps
\* its line.
C6_CountMismatchTolerated ==
    (/\ CalledOnceOnFile
     /\ WellFormed(fix_orig.lines)
     /\ NumEncodings(fix_orig.lines) >= 1
     /\ NumEncodings(fix_orig.lines) # Cardinality(chars))
    => LET n == NumEncodings(fix_orig.lines)
           m == Min(n, Cardinality(chars))
       IN  /\ fix_ret = "True"
           /\ Len(bdf_file.lines) = Len(fix_orig.lines)
           /\ IsSmallestOf(SubSeq(EncodingValues(bdf_file.lines), 1, m), chars, m)
           /\ \A k \in (Cardinality(chars) + 1)..n :
                 bdf_file.lines[KthMarker(fix_orig.lines, k)]
                     = fix_orig.lines[KthMarker(fix_orig.lines, k)]

\* C7: on a document that is not valid UTF-8 (and decodes as Latin-1) the
\* repair returns True, rewrites the ENCODING values as for any document and
\* leaves the bytes of every other line as they were.
C7_Latin1DocumentRepaired ==
    (/\ CalledOnceOnFile
     /\ WellFormed(fix_orig.lines)
     /\ NumEncodings(fix_orig.lines) >= 1
     /\ NotUtf8(fix_orig.lines))
    => LET m == Min(NumEncodings(fix_orig.lines), Cardinality(chars))
       IN  /\ fix_ret = "True"
           /\ Len(bdf_file.lines) = Len(fix_orig.lines)
           /\ IsSmallestOf(SubSeq(EncodingValues(bdf_file.lines), 1, m), chars, m)
           /\ \A i \in 1..Len(fix_orig.lines) :
                 ~fix_orig.lines[i].marker
                     => bdf_file.lines[i].bytes = fix_orig.lines[i].bytes

\* =====================================================================
\* Properties of generate_font, continued (checked under Spec)
\* =====================================================================
\* The sizes started after the k-th one.
LaterSizes(k) == { trail[j].size : j \in (k + 1)..Len(trail) }

\* The last size started, once the loop has moved past it.
LastSizeLeft == trail # <<>> /\ pc \in {"subset", "manifest", "done"}

\* C11 as stated: when generate_font returns, every size whose packing
\* failed while "bdf" was requested has its bitmap document listed and on
\* disk.
C11_PackFailureKeepsBitmap ==
    (pc = "done" /\ "bdf" \in formats)
    => \A k \in 1..Len(trail) :
         trail[k].pcf = "False"
         => /\ bdf_path(trail[k].size) \in Range(generated_files)
            /\ bdf_path(trail[k].size) \in DOMAIN disk

\* What does hold: from the moment packing fails for a size with "bdf"
\* requested, the bitmap document of that size is listed, and it stays on
\* disk, holding what the repair wrote, for as long as the same size is not
\* started again later in the list.
C11_PackFailureKeepsBitmapUntilRerun ==
    "bdf" \in formats
    => \A k \in 1..Len(trail) :
         trail[k].pcf = "False"
         => /\ bdf_path(trail[k].size) \in Range(generated_files)
            /\ trail[k].size \notin LaterSizes(k)
               => /\ bdf_path(trail[k].size) \in DOMAIN disk
                  /\ IsSortedCodepointsOf(
                         EncodingValues(disk[bdf_path(trail[k].size)]), chars)

\* A run of two different sizes returned with both formats requested; the
\* packing of the first size failed.
C11_Witness ==
    /\ pc = "done"
    /\ formats = {"bdf", "pcf"}
    /\ Len(trail) = 2
    /\ trail[1].size # trail[2].size
    /\ trail[1].pcf = "False"

\* C12: once rasterizing has failed for a size, the subset font of that size
\* is gone, repair and packing were not run for it, the list holds what the
\* earlier sizes produced and nothing more, and the loop has moved on (to
\* the next size, or to the end of the list).
C12_RasterizeFailureSkipsSize ==
    \A k \in 1..Len(trail) :
        trail[k].bdf = "False"
        => /\ trail[k].fix = "skipped"
           /\ trail[k].pcf = "skipped"
           /\ k = Len(trail)
              => /\ LastSizeLeft
                 /\ idx = k + 1
                 /\ subset_ttf(trail[k].size) \notin DOMAIN disk
                 /\ generated_files = Produced(SubSeq(trail, 1, k - 1))

\* A run of two sizes returned: rasterizing failed for the first and left a
\* cut-off document, every stage of the second succeeded.
C12_Witness ==
    /\ pc = "done"
    /\ Len(trail) = 2
    /\ trail[1].bdf = "False"
    /\ bdf_path(trail[1].size) \in DOMAIN disk
    /\ AllStagesSucceeded(trail[2])

\* C13: once the repair has failed for a size, the subset font and the
\* bitmap document of that size are gone, packing was not run for it, the
\* list holds what the earlier sizes produced and nothing more, and the loop
\* has moved on (to the next size, or to the end of the list); stated for
\* the runs that request a format.
C13_RepairFailureSkipsSize ==
    \A k \in 1..Len(trail) :
        (trail[k].fix = "False" /\ formats # {})
        => /\ trail[k].pcf = "skipped"
           /\ k = Len(trail)
              => /\ LastSizeLeft
                 /\ subset_ttf(trail[k].size) \notin DOMAIN disk
                 /\ bdf_path(trail[k].size) \notin DOMAIN disk
                 /\ generated_files = Produced(SubSeq(trail, 1, k - 1))

\* The same, for a repair that failed on a bitmap document that exists.
C13_RepairFailureOfExistingFileSkipsSize ==
    \A k \in 1..Len(trail) :
        (trail[k].fix = "False" /\ k = Len(trail) /\ pc # "raised")
        => /\ trail[k].pcf = "skipped"
           /\ LastSizeLeft
           /\ subset_ttf(trail[k].size) \notin DOMAIN disk
           /\ bdf_path(trail[k].size) \notin DOMAIN disk
           /\ generated_files = Produced(SubSeq(trail, 1, k - 1))

AllSizesProcessed == Len(trail) = Len(sizes) /\ pc = "done"

C16_NoManifestWithoutArtifact ==
    (pc = "done" /\ generated_files = <<>> /\ sizes # <<>> /\ formats # {})
    => /\ manifest_writes = 0
       /\ metadata_path \notin DOMAIN disk

\* The number a digit sequence denotes in base 16.
RECURSIVE HexValue(_)
HexValue(ds) ==
    IF ds = <<>> THEN 0
    ELSE 16 * HexValue(SubSeq(ds, 1, Len(ds) - 1)) + ds[Len(ds)]

C18_SubsetNeverRaises ==
    /\ [](subset_result.outcome # "none"
          => IF subset_result.outcome = "ok"
             THEN /\ subset_result.success
                  /\ subset_result.num_glyphs = subset_result.saved
                  /\ subset_result.saved = font_glyphs
             ELSE /\ ~subset_result.success
                  /\ subset_result.num_glyphs = 0
                  /\ (logger /\ trail[Len(trail)].subset = "False")
                     => /\ errors # <<>>
                        /\ errors[Len(errors)] =
                             <<"Font subsetting failed: ",
                               exception_message(subset_result.outcome)>>)
    /\ [][pc = "subset"
          => /\ pc' \in {"rasterize", "subset", "manifest"}
             /\ Len(trail') = Len(trail) + 1
             /\ trail'[Len(trail')].subset = Ret(subset_result'.success)]_vars

\* With a logger attached, the subsetting of the second size raised after
\* the first size had produced an artifact.
C18_Witness ==
    /\ logger
    /\ Len(trail) = 2
    /\ generated_files # <<>>
    /\ subset_result.outcome = "raised_after_save"
    /\ Len(errors) = 1

\* C19: with a logger, right after convert_to_bdf the last log entry is the
\* entry of what the tool did and the return value matches it: exit 0 gives
\* "success" and True; a non-zero exit gives "failed" with an exit code and
\* False; a missing executable gives "failed" with "Command not found" and
\* False; and "Command not found" is recorded for a missing executable only
\* (stated for the runs that request a format).
C19_RasterizeOutcomeInLog ==
    (/\ logger
     /\ formats # {}
     /\ history # <<>>
     /\ history[Len(history)].bdf # "none"
     /\ history[Len(history)].pcf = "none"
     /\ trail[Len(trail)].fix = "skipped")
    => LET h == history[Len(history)]
           e == log_entries[Len(log_entries)]
           ret == trail[Len(trail)].bdf
       IN  /\ e.step = "convert_to_bdf"
           /\ h.bdf = "exit_zero"
              => ret = "True" /\ e.status = "success"
           /\ h.bdf = "exit_nonzero"
              => ret = "False" /\ e.status = "failed" /\ e.exit_code # "none"
           /\ h.bdf = "not_found"
              => ret = "False" /\ e.status = "failed"
                 /\ e.error = "Command not found"
           /\ e.error = "Command not found" => h.bdf = "not_found"

\* The same, for the tools that leave their output file when they exit 0.
C19_RasterizeOutcomeInLogWhenOutputWritten ==
    (/\ logger
     /\ history # <<>>
     /\ history[Len(history)].bdf # "none"
     /\ history[Len(history)].pcf = "none"
     /\ trail[Len(trail)].fix = "skipped"
     /\ ~(history[Len(history)].bdf = "exit_zero"
          /\ history[Len(history)].what = "none"))
    => LET h == history[Len(history)]
           e == log_entries[Len(log_entries)]
           ret == trail[Len(trail)].bdf
       IN  /\ e.step = "convert_to_bdf"
           /\ h.bdf = "exit_zero"
              => ret = "True" /\ e.status = "success"
           /\ h.bdf = "exit_nonzero"
              => ret = "False" /\ e.status = "failed" /\ e.exit_code # "none"
           /\ h.bdf = "not_found"
              => ret = "False" /\ e.status = "failed"
                 /\ e.error = "Command not found"
           /\ e.error = "Command not found" => h.bdf = "not_found"

\* What one size leaves, computed from what the tools did for it (h) and
\* from the configuration alone: the disk, the list, and whether an
\* exception escaped. Neither the debug flag nor anything the coverage
\* check returned or logged is read.
OneSize(d, files, s, h) ==
    LET r1 == generate_subset_font(d, subset_ttf(s), h.subset)
        r2 == convert_to_bdf(r1.disk, bdf_path(s), Cardinality(chars),
                             logger, h.bdf, h.what)
        r3 == fix_bdf_encodings(At(r2.disk, bdf_path(s)), chars, "rw", encoding)
        d3 == Put(r2.disk, bdf_path(s), r3.file.lines)
        f3 == IF "bdf" \in formats THEN Append(files, bdf_path(s)) ELSE files
        r4 == IF "pcf" \in formats THEN convert_to_pcf(d3, pcf_path(s), h.pcf)
              ELSE [ret |-> FALSE, disk |-> d3]
        f4 == IF r4.ret THEN Append(f3, pcf_path(s)) ELSE f3
        u2 == unlink(r2.disk, <<subset_ttf(s)>>)
        u3 == unlink(r2.disk, <<subset_ttf(s), bdf_path(s)>>)
        u4 == unlink(r4.disk, IF "bdf" \in formats THEN <<subset_ttf(s)>>
                              ELSE <<subset_ttf(s), bdf_path(s)>>)
    IN  IF ~r1.success THEN [disk |-> r1.disk, files |-> files, raised |-> FALSE]
        ELSE IF ~r2.ret THEN [disk |-> u2.disk, files |-> files, raised |-> u2.raised]
        ELSE IF ~r3.ret THEN [disk |-> u3.disk, files |-> files, raised |-> u3.raised]
        ELSE [disk |-> u4.disk, files |-> f4, raised |-> u4.raised]

\* The same for the first k sizes, stopping at an exception.
RECURSIVE AllSizes(_)
AllSizes(k) ==
    IF k = 0 THEN [disk |-> EmptyDir, files |-> <<>>, raised |-> FALSE]
    ELSE LET before == AllSizes(k - 1)
         IN  IF before.raised THEN before
             ELSE OneSize(before.disk, before.files, sizes[k], history[k])

\* The font files of a directory: everything but the manifest.
FontFiles(d) == [n \in DOMAIN d \ {metadata_path} |-> d[n]]

C24_PlainWritableFileUnchanged ==
    (/\ fix_calls = 1
     /\ fix_orig.exists
     /\ file_mode = "rw"
     /\ NumEncodings(fix_orig.lines) = 0
     /\ ReadLines(encoding, fix_orig.lines).ok
     /\ \A i \in 1..Len(fix_orig.lines) : fix_orig.lines[i].eol = "LF")
    => /\ fix_ret = "True"
       /\ bdf_file = fix_orig

\* C29: whenever a call returns False, the file is what it was before that
\* call: nothing is written before the whole document is read and
\* transformed.
C29_FailedRepairLeavesFile ==
    (fix_calls >= 1 /\ fix_ret = "False") => bdf_file = fix_prev

\* The transformation failed in the middle: the first ENCODING record of a
\* writable, decodable file was rewritable, the second has no integer.
C29_Witness ==
    /\ fix_calls = 1
    /\ fix_ret = "False"
    /\ file_mode = "rw"
    /\ Cardinality(chars) >= 2
    /\ Len(fix_orig.lines) >= 2
    /\ fix_orig.lines[1] = EncLine(<<IntTok(1)>>)
    /\ fix_orig.lines[2] = EncLine(<<BadTok>>)
    /\ bdf_file = fix_orig

\* =====================================================================
\* Properties of the pipeline, continued (checked under Spec)
\* =====================================================================
\* The sizes whose subsetting returned True so far.
SubsetSucceeded == { k \in 1..Len(trail) : trail[k].subset = "True" }

\* The low-glyph-count warnings recorded so far.
FewGlyphWarnings == { i \in 1..Len(warnings) : warnings[i] = few_glyphs_warning }

\* C23 as stated: every subsetting that saved fewer glyphs than half the
\* requested characters returned True and recorded one warning, and the
\* others recorded none (stated for the runs that reach a size).
C23_FewGlyphsWarned ==
    /\ (pc = "rasterize" => (subset_result.success /\ subset_result.outcome = "ok"))
    /\ Cardinality(FewGlyphWarnings)
         = IF 2 * font_glyphs < Cardinality(chars)
           THEN Cardinality(SubsetSucceeded) ELSE 0

\* C23 for the calls that are given a logger, which is where a warning is
\* recorded: every successful subsetting with fewer glyphs than half the
\* requested characters recorded one warning and returned True; a
\* subsetting with at least half, a failed one, or one without a logger
\* recorded none.
C23_FewGlyphsWarnedWithLogger ==
    /\ (pc = "rasterize" => (subset_result.success /\ subset_result.outcome = "ok"))
    /\ Cardinality(FewGlyphWarnings)
         = IF logger /\ 2 * font_glyphs < Cardinality(chars)
           THEN Cardinality(SubsetSucceeded) ELSE 0

\* A logged run subset two sizes successfully with no glyph for two
\* characters: two warnings, and both sizes went on to rasterizing.
C23_Witness ==
    /\ logger
    /\ font_glyphs = 0
    /\ Len(trail) = 2
    /\ Cardinality(SubsetSucceeded) = 2
    /\ Cardinality(FewGlyphWarnings) = 2
    /\ pc = "rasterize"

\* Exactly half the requested count: success and no warning.
C23_WitnessHalf ==
    /\ logger
    /\ font_glyphs = 1
    /\ Cardinality(chars) = 2
    /\ Cardinality(SubsetSucceeded) >= 1
    /\ FewGlyphWarnings = {}

\* A stage of a size ran only if the stage before it returned True, and
\* packing ran only if "pcf" is requested.
StagesInOrder(e) ==
    /\ e.bdf # "skipped" => e.subset = "True"
    /\ e.fix # "skipped" => e.bdf = "True"
    /\ e.pcf # "skipped" => (e.fix = "True" /\ "pcf" \in formats)

\* The size reached Failed (a stage returned False) or ran every stage it
\* was to run.
StagesOver(e) ==
    \/ e.subset = "False"
    \/ e.bdf = "False"
    \/ e.fix = "False"
    \/ (e.fix = "True" /\ (e.pcf # "skipped" <=> "pcf" \in formats))

\* C25: the sizes are started in the order of the list, one entry each; for
\* each size, rasterizing ran only after subsetting returned True, repairing
\* only after rasterizing returned True, packing only after repairing
\* returned True and only if "pcf" is requested; and while a size is at one
\* of its stages or at its cleanup, no later size is started and every
\* earlier size has all its stages over.
C25_StagesInSequence ==
    /\ Len(trail) <= Len(sizes)
    /\ \A k \in 1..Len(trail) :
          /\ trail[k].size = sizes[k]
          /\ StagesInOrder(trail[k])
          /\ k < Len(trail) => StagesOver(trail[k])
    /\ pc \in {"rasterize", "repair", "pack", "cleanup", "raised"}
       => (Len(trail) = idx /\ idx >= 1)
    /\ pc = "subset" => (Len(trail) = idx - 1
                         /\ (trail # <<>> => StagesOver(trail[Len(trail)])))
    /\ pc \in {"manifest", "done"}
       => (Len(trail) = Len(sizes)
           /\ (trail # <<>> => StagesOver(trail[Len(trail)])))
    /\ pc = "rasterize"
       => (trail[idx].subset = "True" /\ trail[idx].bdf = "skipped")
    /\ pc = "repair"
       => (trail[idx].bdf = "True" /\ trail[idx].fix = "skipped")
    /\ pc = "pack"
       => (trail[idx].fix = "True" /\ trail[idx].pcf = "skipped"
           /\ "pcf" \in formats)
    /\ pc = "cleanup" => (trail[idx].fix = "True" /\ StagesOver(trail[idx]))

\* Two sizes are over: the first failed at rasterizing and ran nothing
\* after it, the second ran all four stages.
C25_Witness ==
    /\ pc = "done"
    /\ Len(trail) = 2
    /\ trail[1].subset = "True" /\ trail[1].bdf = "False"
    /\ trail[1].fix = "skipped" /\ trail[1].pcf = "skipped"
    /\ AllStagesSucceeded(trail[2])
    /\ formats = {"bdf", "pcf"}

\* The passes that ran the stage writing the named file: the repair for a
\* bitmap document, the packing for a packed font.
Writers(f) ==
    { k \in 1..Len(trail) :
        \/ (f = bdf_path(trail[k].size) /\ trail[k].bdf # "skipped")
        \/ (f = pcf_path(trail[k].size) /\ trail[k].pcf # "skipped") }

\* The last pass that wrote the named file succeeded at the stage that
\* wrote it, and a bitmap document holds what the repair wrote.
LeftBySuccessfulStage(f) ==
    /\ Writers(f) # {}
    /\ LET k == CHOOSE j \in Writers(f) : \A i \in Writers(f) : i <= j IN
       IF f = bdf_path(trail[k].size)
       THEN /\ trail[k].fix = "True"
            /\ f \in DOMAIN disk
            /\ IsSortedCodepointsOf(EncodingValues(disk[f]), chars)
       ELSE trail[k].pcf = "True"

NoRepeatedSize == \A i, j \in 1..Len(sizes) : sizes[i] = sizes[j] => i = j

\* C28 as stated: when generate_font returns, every name of the returned
\* list is a file of the output directory left by a successful stage,
\* whatever the list of sizes.
C28_ReturnedFilesExist ==
    pc = "done"
    => \A i \in 1..Len(generated_files) :
          /\ generated_files[i] \in DOMAIN disk
          /\ LeftBySuccessfulStage(generated_files[i])

\* The same for a list of sizes without repetition, where no pass writes
\* over what an earlier pass listed.
C28_ReturnedFilesExistWithoutRepeats ==
    (pc = "done" /\ NoRepeatedSize)
    => \A i \in 1..Len(generated_files) :
          /\ generated_files[i] \in DOMAIN disk
          /\ LeftBySuccessfulStage(generated_files[i])

\* The "started" entries of the subset_font step, as positions in the log.
SubsetStarted ==
    { i \in 1..Len(log_entries) :
        log_entries[i].step = "subset_font" /\ log_entries[i].status = "started" }

\* The entries of the subset_font step that tell an outcome.
SubsetOutcomeLogged ==
    { i \in 1..Len(log_entries) :
        log_entries[i].step = "subset_font"
        /\ log_entries[i].status \in {"success", "failed"} }

\* C30: in the execution log every "started" entry of subset_font is
\* followed at once by one subset_font entry with status "success" or
\* "failed", every such outcome entry follows its "started" entry, and a
\* logged run has one pair per size started; so the log never ends with a
\* "started" entry.
C30_SubsetStartedHasOutcome ==
    LET started == SubsetStarted
        outcomes == SubsetOutcomeLogged
    IN  /\ \A i \in started : i + 1 \in outcomes
        /\ \A i \in outcomes : i - 1 \in started
        /\ logger => Cardinality(started) = Len(trail)
        /\ logger => Cardinality({ i \in outcomes : log_entries[i].status = "success" })
                        = Cardinality(SubsetSucceeded)

\* A logged run of two sizes: the second subsetting failed after the first
\* size had logged its rasterizing, and its "failed" entry ends the log.
C30_Witness ==
    /\ logger
    /\ Len(trail) = 2
    /\ trail[1].subset = "True" /\ trail[1].bdf # "skipped"
    /\ trail[2].subset = "False"
    /\ Cardinality(SubsetStarted) = 2
    /\ log_entries[Len(log_entries)].status = "failed"
    /\ log_entries[Len(log_entries)].step = "subset_font"
    /\ log_entries[Len(log_entries) - 1].status = "started"

\* C27: with --dry-run and a configuration that loads, the generate command
\* never enters generate_font: no stage runs, no directory is created, no
\* font file or manifest is written, nothing is logged, and the command
\* returns with the character count, the sizes and the formats printed.
C27_DryRunGeneratesNothing ==
    (cli /\ dry_run /\ config_loads)
    => /\ pc \in {"generate", "exited"}
       /\ trail = <<>> /\ history = <<>> /\ subset_result = NoCall
       /\ made_dirs = {}
       /\ disk = EmptyDir
       /\ manifest = NoManifest /\ manifest_writes = 0
       /\ generated_files = <<>>
       /\ log_entries = <<>> /\ coverage_stats = "None"
       /\ pc = "generate" => (dry_run_echo = NoEcho /\ exit_code = -1)
       /\ pc = "exited"
          => /\ dry_run_echo = [printed |-> TRUE,
                                characters |-> Cardinality(chars),
                                sizes |-> sizes, formats |-> formats]
             /\ exit_code = 0

\* A dry run of two sizes with both formats and the manifest requested has
\* returned.
C27_Witness ==
    /\ cli /\ dry_run /\ config_loads
    /\ pc = "exited"
    /\ Len(sizes) = 2 /\ formats = {"bdf", "pcf"} /\ metadata
    /\ dry_run_echo.printed
    /\ made_dirs = {} /\ disk = EmptyDir

\* =====================================================================
\* SpecRange: unicode_range_to_chars applied to one configuration string
\* =====================================================================
\* The code points the strings are formed from: 0 .. MaxCode, which has
\* one-digit and two-digit values and the digits A to F.
MaxCode == 17

\* The strings "U+S-E" and "U+S" over these code points, and two strings
\* that are neither: "U+" and "U+0001-0002-0003".
RangeInputs ==
    { FormatRange(a, b) : a, b \in 0..MaxCode }
    \cup { FormatPoint(a) : a \in 0..MaxCode }
    \cup { <<85, 43>>, FormatRange(1, 2) \o <<45>> \o Hex4(3) }

\* Nothing but the function under test is running.
OthersIdle ==
    /\ chars = {} /\ encoding = "utf-8"
    /\ PipelineIdle /\ FixIdle

InitRange ==
    /\ range_input \in RangeInputs
    /\ range_result = NotCalled
    /\ OthersIdle /\ CharsIdle /\ LoggerIdle

\* chars = unicode_range_to_chars(unicode_range)
Expand ==
    /\ ~range_result.done
    /\ LET r == unicode_range_to_chars(range_input) IN
       range_result' = [done |-> TRUE, raised |-> r.raised, chars |-> r.chars]
    /\ UNCHANGED <<range_input, fixvars, config, runvars, charvars, loggervars>>

NextRange == Expand

SpecRange == InitRange /\ [][NextRange]_vars

\* C22: "U+S-E" expands, without raising, to exactly the characters with
\* S <= c <= E, which is no character when S > E; "U+S" expands to exactly
\* the character S.
C22_RangeExpandsInclusive ==
    range_result.done
    => \A a \in 0..MaxCode :
          /\ range_input = FormatPoint(a)
             => (~range_result.raised /\ range_result.chars = {a})
          /\ \A b \in 0..MaxCode :
                range_input = FormatRange(a, b)
                => /\ ~range_result.raised
                   /\ \A c \in 0..(MaxCode + 1) :
                         c \in range_result.chars <=> (a <= c /\ c <= b)
                   /\ range_result.chars \subseteq 0..MaxCode
                   /\ a > b => range_result.chars = {}

\* "U+0009-0011" was expanded to the nine characters U+0009 .. U+0011.
C22_Witness ==
    /\ range_result.done
    /\ range_input = <<85, 43, 48, 48, 48, 57, 45, 48, 48, 49, 49>>
    /\ range_result.chars = 9..17

\* "U+0011-0009" was expanded to no character.
C22_WitnessEmpty ==
    /\ range_result.done /\ ~range_result.raised
    /\ range_input = FormatRange(17, 9)
    /\ range_result.chars = {}

\* =====================================================================
\* SpecChars: collect_characters applied to one configuration
\* =====================================================================
MaxText == 2
MaxRanges == 1

\* The characters of inline strings: A and the space.
InlineAlphabet == {65, 32}

\* The characters of file contents: A, carriage return and line feed.
FileAlphabet == {65, 13, 10}

\* The entries of unicode_ranges: the range from A to B and the empty
\* range from B to A, the single code points of the space and of A, and
\* the string "U+", which is neither.
ConfigRanges ==
    { FormatRange(65, 66), FormatRange(66, 65) }
    \cup { FormatPoint(a) : a \in {32, 65} }
    \cup { <<85, 43>> }

InitChars ==
    /\ inline \in SeqsUpTo(InlineAlphabet, MaxText)
    /\ char_file \in {NoFileKey, MissingFile, UndecodableFile}
                     \cup { TextFile(t) : t \in SeqsUpTo(FileAlphabet, MaxText) }
    /\ unicode_ranges \in SeqsUpTo(ConfigRanges, MaxRanges)
    /\ strip_whitespace \in BOOLEAN
    /\ deduplicate_chars \in BOOLEAN
    /\ collected = NotCalled
    /\ OthersIdle /\ RangeIdle /\ LoggerIdle

\* chars = collect_characters(cfg, config_dir)
Collect ==
    /\ ~collected.done
    /\ LET r == collect_characters(inline, char_file, unicode_ranges,
                                   deduplicate_chars, strip_whitespace)
       IN  collected' = [done |-> TRUE, raised |-> r.raised, chars |-> r.chars]
    /\ UNCHANGED <<inline, char_file, unicode_ranges, strip_whitespace,
                   deduplicate_chars, fixvars, config, runvars, rangevars,
                   loggervars>>

NextChars == Collect

SpecChars == InitChars /\ [][NextChars]_vars

\* The characters each source supplies: the inline string's, the file's as
\* read in text mode (none for a missing file), and every range's.
InlineSource == SetOf(inline)
FileSource ==
    IF char_file.key /\ char_file.exists THEN SetOf(read_text(char_file.text))
    ELSE {}
RangesSource ==
    UNION { unicode_range_to_chars(unicode_ranges[i]).chars :
              i \in 1..Len(unicode_ranges) }
AllSources == InlineSource \cup FileSource \cup RangesSource

\* The configuration's result with other sources in place of its own.
CollectedFrom(inl, f, ranges) ==
    collect_characters(inl, f, ranges, deduplicate_chars, strip_whitespace).chars

\* A string in another order.
Reordered(str) ==
    { [i \in 1..Len(str) |-> str[p[i]]] : p \in Permutations(1..Len(str)) }

\* What the result is independent of: the source a character comes from
\* (the inline string and the file's text exchanged, the characters of the
\* ranges given inline), the order within a source, repetitions, the
\* deduplicate option; and collecting from each source alone and uniting
\* the results gives the result of collecting from all at once.
UnionSemantics ==
    LET got == collected.chars
        text == IF char_file.key /\ char_file.exists
                THEN read_text(char_file.text) ELSE <<>>
    IN
    /\ got = CollectedFrom(text, TextFile(inline), unicode_ranges)
    /\ got = CollectedFrom(inline \o text, NoFileKey, unicode_ranges)
    /\ got = CollectedFrom(inline \o codepoints(RangesSource), char_file, <<>>)
    /\ \A r \in Reordered(inline) :
          got = CollectedFrom(r, char_file, unicode_ranges)
    /\ \A r \in Reordered(text) :
          got = CollectedFrom(inline, TextFile(r), unicode_ranges)
    /\ \A r \in Reordered(unicode_ranges) :
          got = CollectedFrom(inline, char_file, r)
    /\ got = CollectedFrom(inline \o inline, TextFile(text \o text),
                           unicode_ranges \o unicode_ranges)
    /\ got = collect_characters(inline, char_file, unicode_ranges,
                                ~deduplicate_chars, strip_whitespace).chars
    /\ got = CollectedFrom(inline, NoFileKey, <<>>)
               \cup CollectedFrom(<<>>, char_file, <<>>)
               \cup CollectedFrom(<<>>, NoFileKey, unicode_ranges)

\* C21 as stated: the set returned is the union of the characters of the
\* inline string, of the file and of every range, and has the
\* independences above.
C21_CollectIsUnion ==
    (collected.done /\ ~collected.raised)
    => /\ collected.chars = AllSources
       /\ UnionSemantics

\* C21 with the strip_whitespace option accounted for: the set returned is
\* the union of the sources, without its whitespace characters when
\* strip_whitespace is set, and has the independences above.
C21_CollectIsUnionStripped ==
    (collected.done /\ ~collected.raised)
    => /\ collected.chars
            = IF strip_whitespace
              THEN AllSources \ {9, 10, 11, 12, 13, 32}
              ELSE AllSources
       /\ UnionSemantics

\* Collected from "AA", a file holding "A" and a line feed, and the range
\* U+0041-0042, keeping whitespace: A comes from all three sources.
C21_Witness ==
    /\ collected.done /\ ~collected.raised
    /\ ~strip_whitespace
    /\ inline = <<65, 65>>
    /\ char_file = TextFile(<<65, 10>>)
    /\ unicode_ranges = <<FormatRange(65, 66)>>
    /\ collected.chars = {10, 65, 66}

\* =====================================================================
\* SpecLogger: the methods of one GenerationLogger called in any order
\* =====================================================================
\* How many calls are made on the logger.
MaxLog == 3

\* The entries the pipeline's stages pass to log_command, over every
\* outcome of every stage.
PipelineEntries ==
    UNION ( { SetOf(generate_subset_font_logged(TRUE, 2, o, n).entries) :
                o \in SubsetOutcomes, n \in GlyphCounts }
            \cup { SetOf(convert_to_bdf_logged(TRUE, EmptyDir, bdf_path(12), o, w).entries) :
                     o \in ToolOutcomes, w \in {"none", "document", "truncated"} }
            \cup { SetOf(convert_to_pcf_logged(TRUE, o).entries) : o \in ToolOutcomes } )

\* Two of the messages the pipeline passes to warn, and two it passes to
\* error.
WarnMessages == { few_glyphs_warning } \cup SetOf(skip_warning(TRUE, "subsetting").warnings)
ErrorMessages ==
    SetOf(fix_bdf_encodings_logged(TRUE, FALSE).errors)
    \cup SetOf(check_character_coverage("failed").logged.errors)

\* logger = GenerationLogger(verbose=..., debug=...)
InitLogger ==
    /\ verbose \in BOOLEAN
    /\ echoed = 0
    /\ last_call = NoLoggerCall
    /\ OthersIdle /\ CharsIdle /\ RangeIdle

\* The logger as it is.
Self ==
    [log_entries |-> log_entries, warnings |-> warnings, errors |-> errors,
     verbose |-> verbose, echoed |-> echoed]

\* One call of a method: the logger it leaves, and nothing else changes.
Call(method, lg) ==
    /\ last_call.n < MaxLog
    /\ last_call' = [method |-> method, n |-> last_call.n + 1]
    /\ log_entries' = lg.log_entries
    /\ warnings' = lg.warnings
    /\ errors' = lg.errors
    /\ echoed' = lg.echoed
    /\ verbose' = lg.verbose
    /\ UNCHANGED <<disk, pc, idx, generated_files, manifest, trail, history,
                   subset_result, coverage_stats, manifest_writes, exit_code,
                   clivars, fixvars, config, charvars, rangevars>>

LogCommand == \E entry \in PipelineEntries : Call("log_command", log_command(Self, entry))
Warn == \E message \in WarnMessages : Call("warn", warn(Self, message))
Error == \E message \in ErrorMessages : Call("error", error(Self, message))
Info == Call("info", info(Self, "message"))
Success == Call("success", success(Self, "message"))
Section == Call("section", section(Self, "title"))

NextLogger ==
    \/ LogCommand
    \/ Warn
    \/ Error
    \/ Info
    \/ Success
    \/ Section

SpecLogger == InitLogger /\ [][NextLogger]_vars

\* s is t with nothing or more appended.
Extends(t, s) == Len(s) >= Len(t) /\ SubSeq(s, 1, Len(t)) = t

\* C26: every call leaves log_entries, warnings and errors each an
\* extension of what it was; log_command adds exactly one entry, warn
\* exactly one warning, error exactly one error, verbose or not, and no
\* other call adds to that list; and every entry recorded from the
\* pipeline's stages has status started, success or failed.
C26_LoggerAppendOnly ==
    /\ [](\A i \in 1..Len(log_entries) :
             log_entries[i].status \in {"started", "success", "failed"})
    /\ [][/\ Extends(log_entries, log_entries')
          /\ Extends(warnings, warnings')
          /\ Extends(errors, errors')
          /\ Len(log_entries') - Len(log_entries)
               = IF last_call'.method = "log_command" THEN 1 ELSE 0
          /\ Len(warnings') - Len(warnings)
               = IF last_call'.method = "warn" THEN 1 ELSE 0
          /\ Len(errors') - Len(errors)
               = IF last_call'.method = "error" THEN 1 ELSE 0]_vars

\* A logger that is not verbose has recorded an entry and a warning and
\* echoed nothing, and its last call only echoes.
C26_Witness ==
    /\ ~verbose
    /\ last_call = [method |-> "section", n |-> 3]
    /\ Len(log_entries) = 1
    /\ Len(warnings) = 1
    /\ errors = <<>>
    /\ echoed = 0

====
